---- MODULE Spec2Model ----
(***************************************************************************)
(* A model of chariot's main.go: the tool-calling conversation loop        *)
(* (Agent.Run), tool dispatch (Agent.executeTool), the inference client    *)
(* (OllamaClient.Chat) and the two tools (ReadFile, ListFiles).            *)
(*                                                                         *)
(* Conventions.  A json.RawMessage is kept in parsed form (a record that   *)
(* says which JSON value it is); RawText renders it back to its text.  A   *)
(* file path is kept as its sequence of components; PathText renders it.   *)
(* The ANSI colour escapes written around the console labels are left out  *)
(* of the console texts.                                                   *)
(***************************************************************************)
EXTENDS Naturals, Sequences, FiniteSets, TLC

VARIABLES
    pc,             \* position of the process: see PcValues
    conversation,   \* Agent.Run's local `conversation` (the transcript)
    readUserInput,  \* Agent.Run's local `readUserInput`
    response,       \* the message of the last successful runInference
    toolResults,    \* Agent.Run's local `toolResults`
    idx,            \* 1-based position of the range loop over ToolCalls
    err,            \* the error Agent.Run returned ("" is nil)
    tools,          \* Agent.tools, the tool catalog
    fs,             \* the files and directories below the working directory
    trace           \* every interaction so far, in order: console writes,
                    \* console reads, backend calls, dispatches, tool runs

vars ==
    <<pc, conversation, readUserInput, response, toolResults, idx, err, tools,
      fs, trace>>

-----------------------------------------------------------------------------
(* Bounds of the model.                                                    *)

\* backend calls made in one run
MaxInfer == 3
\* tool call requests the backend puts in the assistant turns of one run
MaxToolCalls == 2

-----------------------------------------------------------------------------
(* Sequence helpers.                                                       *)

RECURSIVE Join(_, _)
\* strings.Join-like: the elements of ss with sep between them
Join(ss, sep) ==
    IF Len(ss) = 0 THEN ""
    ELSE IF Len(ss) = 1 THEN ss[1]
    ELSE ss[1] \o sep \o Join(Tail(ss), sep)

-----------------------------------------------------------------------------
(* The filesystem the tools see (the process's working directory).         *)
(* FsDirs maps each directory to the names in it, FsFiles each file to its *)
(* content.  Paths are component sequences; <<>> is the working directory. *)
(* The program does not write to the filesystem: fs never changes.         *)

\* the tree the program is run in
WorkingDir ==
    [files |-> (<<"a.txt">> :> "alpha") @@ (<<"sub", "b.txt">> :> "beta"),
     dirs |-> (<< >> :> {"a.txt", "empty", "sub"}) @@
              (<<"empty">> :> {}) @@
              (<<"sub">> :> {"b.txt"})]

FsFiles == fs.files

FsDirs == fs.dirs

\* the lexical order of the names used (sort.Strings in readDirNames)
NameRank == ("a.txt" :> 1) @@ ("b.txt" :> 2) @@ ("empty" :> 3) @@ ("sub" :> 4)

RECURSIVE SortNames(_)
SortNames(S) ==
    IF S = {} THEN << >>
    ELSE LET m == CHOOSE n \in S : \A o \in S : NameRank[n] <= NameRank[o]
         IN  <<m>> \o SortNames(S \ {m})

IsDir(p) == p \in DOMAIN FsDirs
IsFile(p) == p \in DOMAIN FsFiles
Exists(p) == IsDir(p) \/ IsFile(p)

\* the path leads through a regular file: resolving it fails with ENOTDIR
ThroughFile(p) == \E n \in 1..(Len(p) - 1) : IsFile(SubSeq(p, 1, n))

\* the text of the errno with which resolving a path that does not exist fails
MissingText(p) ==
    IF ThroughFile(p) THEN "not a directory" ELSE "no such file or directory"

\* the text of a path: "." for the working directory itself
PathText(p) == IF p = << >> THEN "." ELSE Join(p, "/")

-----------------------------------------------------------------------------
(* json.RawMessage values and json.Unmarshal into a struct whose only      *)
(* field is `Path string` with the JSON key "path" (ReadFileInput and      *)
(* ListFilesInput).  kind is the JSON value the raw text holds ("absent":  *)
(* the key "arguments" was missing, the RawMessage is nil); for an object, *)
(* ptype says what its "path" member is and pval is the path when it is a  *)
(* string.                                                                 *)

RawAbsent == [kind |-> "absent", ptype |-> "absent", pval |-> << >>]
RawArray == [kind |-> "array", ptype |-> "absent", pval |-> << >>]
RawObject == [kind |-> "object", ptype |-> "absent", pval |-> << >>]
RawObjectNumber == [kind |-> "object", ptype |-> "number", pval |-> << >>]
RawObjectPath(p) == [kind |-> "object", ptype |-> "string", pval |-> p]

\* the text of a raw message, as %s prints it
RawText(input) ==
    CASE input.kind = "absent" -> ""
      [] input.kind = "null" -> "null"
      [] input.kind = "array" -> "[1]"
      [] input.kind = "object" /\ input.ptype = "absent" -> "{}"
      [] input.kind = "object" /\ input.ptype = "null" -> "{\"path\":null}"
      [] input.kind = "object" /\ input.ptype = "number" -> "{\"path\":7}"
      [] OTHER -> "{\"path\":\"" \o Join(input.pval, "/") \o "\"}"

\* json.Unmarshal(input, &v) for v of struct type typeName, v zero before:
\* err is the error text ("" is nil), Path the field afterwards.
Unmarshal(input, typeName) ==
    CASE input.kind = "absent" ->
            [err |-> "unexpected end of JSON input", Path |-> << >>]
      [] input.kind = "null" ->
            [err |-> "", Path |-> << >>]
      [] input.kind = "array" ->
            [err |-> "json: cannot unmarshal array into Go value of type main."
                        \o typeName,
             Path |-> << >>]
      [] input.kind = "object" /\ input.ptype = "number" ->
            [err |-> "json: cannot unmarshal number into Go struct field "
                        \o typeName \o ".path of type string",
             Path |-> << >>]
      [] input.kind = "object" /\ input.ptype = "string" ->
            [err |-> "", Path |-> input.pval]
      [] OTHER ->
            [err |-> "", Path |-> << >>]

-----------------------------------------------------------------------------
(* The tools.  A tool function's outcome is a record: panic is TRUE when   *)
(* the function panicked (then perr is the panic value), otherwise out and *)
(* err are the two values it returned (err "" is nil).                     *)

Returned(out, e) == [panic |-> FALSE, perr |-> "", out |-> out, err |-> e]
Panicked(e) == [panic |-> TRUE, perr |-> e, out |-> "", err |-> ""]

\* os.ReadFile(p); the empty path is the empty string, which names no file
OsReadFile(p) ==
    IF p /= << >> /\ IsFile(p) THEN Returned(FsFiles[p], "")
    ELSE IF p /= << >> /\ IsDir(p)
         THEN Returned("", "read " \o Join(p, "/") \o ": is a directory")
    ELSE Returned("", "open " \o Join(p, "/") \o ": " \o MissingText(p))

ReadFile(input) ==
    LET u == Unmarshal(input, "ReadFileInput")
    IN  IF u.err /= "" THEN Panicked(u.err)
        ELSE OsReadFile(u.Path)

RECURSIVE WalkNames(_, _)
RECURSIVE Walk(_)
\* filepath.Walk's visits below directory p for the sorted names left
WalkNames(p, names) ==
    IF names = << >> THEN << >>
    ELSE Walk(Append(p, Head(names))) \o WalkNames(p, Tail(names))

\* the paths filepath.Walk hands to its callback from an existing p, in order
Walk(p) ==
    <<p>> \o (IF IsDir(p) THEN WalkNames(p, SortNames(FsDirs[p])) ELSE << >>)

\* filepath.Rel(dir, path) for a path below dir
Rel(dir, path) == SubSeq(path, Len(dir) + 1, Len(path))

RECURSIVE WalkFiles(_, _)
\* the callback of ListFiles over the visited paths: the `files` slice
WalkFiles(dir, paths) ==
    IF paths = << >> THEN << >>
    ELSE LET path == Head(paths)
             relPath == PathText(Rel(dir, path))
             rest == WalkFiles(dir, Tail(paths))
         IN  IF relPath /= "."
             THEN IF IsDir(path) THEN <<relPath \o "/">> \o rest
                  ELSE <<relPath>> \o rest
             ELSE rest

RECURSIVE Quoted(_)
Quoted(ss) ==
    IF ss = << >> THEN << >> ELSE <<"\"" \o Head(ss) \o "\"">> \o Quoted(Tail(ss))

\* json.Marshal of a []string; the nil slice marshals to null
MarshalStrings(files) ==
    IF files = << >> THEN "null" ELSE "[" \o Join(Quoted(files), ",") \o "]"

ListFiles(input) ==
    LET u == Unmarshal(input, "ListFilesInput")
        dir == IF u.Path /= << >> THEN u.Path ELSE << >>
    IN  IF u.err /= "" THEN Panicked(u.err)
        ELSE IF ~Exists(dir)
             THEN Returned("", "lstat " \o PathText(dir) \o ": " \o MissingText(dir))
        ELSE Returned(MarshalStrings(WalkFiles(dir, Walk(dir))), "")

ReadFileDefinition ==
    [Name |-> "read_file",
     Description |-> "Read the contents of a given relative file path. Use this when you want to see what's inside a file. Do not use this with directory names.",
     Properties |-> {"path"},
     Function |-> "ReadFile"]

ListFilesDefinition ==
    [Name |-> "list_files",
     Description |-> "List files and directories at a given path. If no path is provided, lists files in the current directory.",
     Properties |-> {"path"},
     Function |-> "ListFiles"]

\* main's `tools`, which NewAgent stores in Agent.tools
MainTools == <<ReadFileDefinition, ListFilesDefinition>>

\* toolDef.Function(input)
CallFunction(toolDef, input) ==
    IF toolDef.Function = "ReadFile" THEN ReadFile(input) ELSE ListFiles(input)

-----------------------------------------------------------------------------
(* The entries of trace.                                                   *)

\* a write to standard output
PrintEv(text) == [op |-> "Print", text |-> text]
\* a call of getUserMessage and what it returned
InputEv(text, ok) == [op |-> "getUserMessage", text |-> text, ok |-> ok]
\* a call of OllamaClient.Chat: the request it sent, what the backend did
\* with it, and the message and the error the call returned
ChatEv(request, reply, message, e) ==
    [op |-> "Chat", request |-> request, reply |-> reply, message |-> message,
     err |-> e]
\* a call of Agent.executeTool
ExecEv(name, input) == [op |-> "executeTool", name |-> name, input |-> input]
\* a call of a tool's Function
FuncEv(fn, input) == [op |-> "Function", fn |-> fn, input |-> input]

-----------------------------------------------------------------------------
(* Agent.executeTool.                                                      *)

RECURSIVE FindTool(_, _, _)
\* the range loop over a.tools: the index of the first tool called name
\* at or after position k, 0 when there is none
FindTool(ts, name, k) ==
    IF k > Len(ts) THEN 0
    ELSE IF ts[k].Name = name THEN k
    ELSE FindTool(ts, name, k + 1)

\* a dispatch that prints its trace line after the tool has run
executeTool_TraceAfterCall(ts, name, input) ==
    LET k == FindTool(ts, name, 1)
    IN  IF k = 0
        THEN [panic |-> FALSE, result |-> "tool not found", events |-> << >>]
        ELSE LET ev == << FuncEv(ts[k].Function, input),
                          PrintEv("tool: " \o name \o "(" \o RawText(input) \o ")\n") >>
                 r == CallFunction(ts[k], input)
             IN  IF r.panic
                 THEN [panic |-> TRUE, result |-> r.perr, events |-> ev]
                 ELSE IF r.err /= ""
                      THEN [panic |-> FALSE, result |-> r.err, events |-> ev]
                 ELSE [panic |-> FALSE, result |-> r.out, events |-> ev]

\* panic: the tool's Function panicked; result: the string returned;
\* events: what the call did, in order
executeTool(ts, name, input) ==
    LET k == FindTool(ts, name, 1)
    IN  IF k = 0
        THEN [panic |-> FALSE, result |-> "tool not found", events |-> << >>]
        ELSE LET ev == << PrintEv("tool: " \o name \o "(" \o RawText(input) \o ")\n"),
                          FuncEv(ts[k].Function, input) >>
                 r == CallFunction(ts[k], input)
             IN  IF r.panic
                 THEN [panic |-> TRUE, result |-> r.perr, events |-> ev]
                 ELSE IF r.err /= ""
                      THEN [panic |-> FALSE, result |-> r.err, events |-> ev]
                 ELSE [panic |-> FALSE, result |-> r.out, events |-> ev]

-----------------------------------------------------------------------------
(* OllamaClient.Chat and Agent.runInference.                               *)
(* What the backend does with a request is the input `reply`:              *)
(*   refused  the connection fails, client.Do returns an error             *)
(*   garbage  the response body is not JSON                                *)
(*   error    the backend reports an error: the body is the JSON object    *)
(*            {"error":"..."} (with a 4xx/5xx status)                      *)
(*   message  the body is a chat response holding reply.message            *)

ZeroMessage == [Role |-> "", Content |-> "", ToolCalls |-> << >>]

Reply(kind, message) == [kind |-> kind, message |-> message]

\* json.Unmarshal(body, &ollamaResp): an object without the key "message"
\* leaves ollamaResp.Message at its zero value
UnmarshalResponse(reply) ==
    CASE reply.kind = "garbage" ->
            [err |-> "invalid character '<' looking for beginning of value",
             Message |-> ZeroMessage]
      [] reply.kind = "error" -> [err |-> "", Message |-> ZeroMessage]
      [] OTHER -> [err |-> "", Message |-> reply.message]

Chat(messages, ollamaTools, reply) ==
    LET reqBody == [Model |-> "qwen3:8b", Messages |-> messages,
                    Tools |-> ollamaTools, Stream |-> FALSE]
        u == UnmarshalResponse(reply)
    IN  IF reply.kind = "refused"
        THEN [request |-> reqBody, Message |-> ZeroMessage,
              err |-> "Post \"http://localhost:11434/api/chat\": dial tcp 127.0.0.1:11434: connect: connection refused"]
        ELSE IF u.err /= ""
             THEN [request |-> reqBody, Message |-> ZeroMessage,
                   err |-> "failed to parse response: " \o u.err \o ", body: <html>"]
        ELSE [request |-> reqBody, Message |-> u.Message, err |-> ""]

\* the OllamaTool built from one ToolDefinition
\* a descriptor whose parameter schema does not say it is an object
OllamaTool_SchemaWithoutType(tool) ==
    [Type |-> "function", Name |-> tool.Name, Description |-> tool.Description,
     Parameters |-> [type |-> "", properties |-> tool.Properties,
                     required |-> << >>]]

OllamaTool(tool) ==
    [Type |-> "function", Name |-> tool.Name, Description |-> tool.Description,
     Parameters |-> [type |-> "object", properties |-> tool.Properties,
                     required |-> << >>]]

\* a call that sends the newest turn instead of the whole transcript
runInference_NewestTurnOnly(ts, conv, reply) ==
    Chat(<<conv[Len(conv)]>>, [k \in 1..Len(ts) |-> OllamaTool(ts[k])], reply)

runInference(ts, conv, reply) ==
    Chat(conv, [k \in 1..Len(ts) |-> OllamaTool(ts[k])], reply)

-----------------------------------------------------------------------------
(* The inputs of a run: the lines on standard input and the backend's      *)
(* replies.                                                                *)

\* Standard input holds the first n of these lines, for any n: line k is
UserLine(k) == IF k % 2 = 1 THEN "list files in ./data" ELSE "show me config.yaml"

Contents == {"", "hi"}

ToolCall(name, arguments) == [Name |-> name, Arguments |-> arguments]

ToolCallChoices ==
    { ToolCall("read_file", RawObjectPath(<<"a.txt">>)),
      ToolCall("read_file", RawObjectPath(<<"config.yaml">>)),
      ToolCall("read_file", RawArray),
      ToolCall("list_files", RawObject),
      ToolCall("list_files", RawObjectNumber),
      ToolCall("write_file", RawObject) }

SeqsUpTo(S, n) == UNION { [1..k -> S] : k \in 0..n }

\* the replies to a call when the backend may still request n tool calls
Replies(n) ==
    { Reply(kind, ZeroMessage) : kind \in {"refused", "garbage", "error"} }
    \cup { Reply("message", [Role |-> "assistant", Content |-> c, ToolCalls |-> tcs]) :
             c \in Contents, tcs \in SeqsUpTo(ToolCallChoices, n) }

RECURSIVE CountToolCalls(_)
\* the tool call requests in the turns of conv
CountToolCalls(conv) ==
    IF conv = << >> THEN 0
    ELSE Len(Head(conv).ToolCalls) + CountToolCalls(Tail(conv))

\* the entries of trace with the given op
Events(op) == SelectSeq(trace, LAMBDA e : e.op = op)

-----------------------------------------------------------------------------
(* The process: main and Agent.Run.  pc is                                 *)
(*   "start"     main has built the agent, Agent.Run has not begun         *)
(*   "loop"      at the top of the for loop                                *)
(*   "infer"     about to call runInference                                *)
(*   "tools"     in the range loop over response.Message.ToolCalls         *)
(*   "returned"  Agent.Run has returned err to main                        *)
(*   "exited"    main has returned                                         *)
(*   "panicked"  a panic has ended the process                             *)

UserMessage(content) == [Role |-> "user", Content |-> content, ToolCalls |-> << >>]

\* a result that is not tagged with the name of its tool
TaggedResult_Untagged(name, result) == "Tool result: " \o result

\* fmt.Sprintf("Tool %s result: %s", name, result)
TaggedResult(name, result) == "Tool " \o name \o " result: " \o result

\* fmt.Sprintf("Tool results: %v", toolResults)
ToolResultsContent(results) == "Tool results: [" \o Join(results, " ") \o "]"

Init ==
    /\ pc = "start"
    /\ conversation = << >>
    /\ readUserInput = TRUE
    /\ response = ZeroMessage
    /\ toolResults = << >>
    /\ idx = 0
    /\ err = ""
    /\ tools = MainTools
    /\ fs = WorkingDir
    /\ trace = << >>

\* Agent.Run up to the for loop
RunStart ==
    /\ pc = "start"
    /\ trace' = Append(trace, PrintEv("Chat with Ollama (use 'ctrl-c' to quit)\n"))
    /\ pc' = "loop"
    /\ UNCHANGED <<conversation, readUserInput, response, toolResults, idx, err, tools, fs>>

\* the lines read from standard input so far
LinesRead == Len(SelectSeq(trace, LAMBDA e : e.op = "getUserMessage" /\ e.ok))

\* the top of the loop when readUserInput holds and a line is read
ReadUserInput(userInput) ==
    /\ pc = "loop"
    /\ readUserInput
    /\ Len(Events("Chat")) < MaxInfer
    /\ userInput = UserLine(LinesRead + 1)
    /\ trace' = trace \o <<PrintEv("You: "), InputEv(userInput, TRUE)>>
    /\ conversation' = Append(conversation, UserMessage(userInput))
    /\ pc' = "infer"
    /\ UNCHANGED <<readUserInput, response, toolResults, idx, err, tools, fs>>

\* a loop that takes the end of the input for an empty line
EndOfInput_ReadsEmptyLine ==
    /\ pc = "loop"
    /\ readUserInput
    /\ trace' = trace \o <<PrintEv("You: "), InputEv("", FALSE)>>
    /\ conversation' = Append(conversation, UserMessage(""))
    /\ pc' = "infer"
    /\ UNCHANGED <<readUserInput, response, toolResults, idx, err, tools, fs>>

\* a loop that stays at its top when the input has ended
EndOfInput_StaysInLoop ==
    /\ pc = "loop"
    /\ readUserInput
    /\ UNCHANGED vars

\* the top of the loop when readUserInput holds and the input has ended
EndOfInput ==
    /\ pc = "loop"
    /\ readUserInput
    /\ trace' = trace \o <<PrintEv("You: "), InputEv("", FALSE)>>
    /\ err' = ""
    /\ pc' = "returned"
    /\ UNCHANGED <<conversation, readUserInput, response, toolResults, idx, tools, fs>>

\* the top of the loop when readUserInput does not hold
SkipUserInput ==
    /\ pc = "loop"
    /\ ~readUserInput
    /\ Len(Events("Chat")) < MaxInfer
    /\ pc' = "infer"
    /\ UNCHANGED <<conversation, readUserInput, response, toolResults, idx, err,
                   tools, fs, trace>>

\* an error check that lets every error through
InferenceFailed_Ignored(r) == FALSE

\* `if err != nil` after runInference
InferenceFailed(r) == r.err /= ""

\* `if len(response.Message.ToolCalls) > 0`
\* a test that takes every turn for one without tool calls
HasToolCalls_Never(message) == FALSE

HasToolCalls(message) == Len(message.ToolCalls) > 0

\* an iteration that never sets readUserInput back to true
ReadUserInputAfter_NeverReads(message) == FALSE

\* an iteration that never sets readUserInput to false
ReadUserInputAfter_AlwaysReads(message) == TRUE

\* the value the iteration leaves in readUserInput: false in the tool call
\* branch, true in the other
ReadUserInputAfter(message) == IF HasToolCalls(message) THEN FALSE ELSE TRUE

\* the range loop has a further tool call after the one at position i
MoreToolCalls(message, i) == i < Len(message.ToolCalls)

\* an iteration that appends the returned turn only when it has content or
\* tool calls
Infer_SkipsEmptyTurn(reply) ==
    /\ pc = "infer"
    /\ LET r == runInference(tools, conversation, reply)
           ev == ChatEv(r.request, reply.kind, r.Message, r.err)
       IN  IF InferenceFailed(r)
           THEN /\ err' = r.err
                /\ pc' = "returned"
                /\ trace' = Append(trace, ev)
                /\ UNCHANGED <<conversation, readUserInput, response, toolResults, idx>>
           ELSE /\ response' = r.Message
                /\ conversation' =
                      IF r.Message.Content = "" /\ ~HasToolCalls(r.Message)
                      THEN conversation
                      ELSE Append(conversation, r.Message)
                /\ readUserInput' = ReadUserInputAfter(r.Message)
                /\ IF HasToolCalls(r.Message)
                   THEN /\ toolResults' = << >>
                        /\ idx' = 1
                        /\ pc' = "tools"
                        /\ trace' = Append(trace, ev)
                   ELSE /\ pc' = "loop"
                        /\ trace' = trace \o
                              <<ev, PrintEv("Ollama: " \o r.Message.Content \o "\n")>>
                        /\ UNCHANGED <<toolResults, idx>>
                /\ UNCHANGED err
    /\ UNCHANGED <<tools, fs>>

\* the call of runInference and the rest of the iteration up to the range loop
Infer(reply) ==
    /\ pc = "infer"
    /\ LET r == runInference(tools, conversation, reply)
           ev == ChatEv(r.request, reply.kind, r.Message, r.err)
       IN  IF InferenceFailed(r)
           THEN /\ err' = r.err
                /\ pc' = "returned"
                /\ trace' = Append(trace, ev)
                /\ UNCHANGED <<conversation, readUserInput, response, toolResults, idx>>
           ELSE /\ response' = r.Message
                /\ conversation' = Append(conversation, r.Message)
                /\ readUserInput' = ReadUserInputAfter(r.Message)
                /\ IF HasToolCalls(r.Message)
                   THEN /\ toolResults' = << >>
                        /\ idx' = 1
                        /\ pc' = "tools"
                        /\ trace' = Append(trace, ev)
                   ELSE /\ pc' = "loop"
                        /\ trace' = trace \o
                              <<ev, PrintEv("Ollama: " \o r.Message.Content \o "\n")>>
                        /\ UNCHANGED <<toolResults, idx>>
                /\ UNCHANGED err
    /\ UNCHANGED <<tools, fs>>

\* one iteration of the range loop over the tool calls, and after the last
\* one the append of the tool results
Dispatch ==
    /\ pc = "tools"
    /\ LET toolCall == response.ToolCalls[idx]
           r == executeTool(tools, toolCall.Name, toolCall.Arguments)
           ev == <<ExecEv(toolCall.Name, toolCall.Arguments)>> \o r.events
           results == Append(toolResults, TaggedResult(toolCall.Name, r.result))
       IN  /\ trace' = trace \o ev
           /\ IF r.panic
              THEN /\ pc' = "panicked"
                   /\ UNCHANGED <<conversation, toolResults, idx>>
              ELSE /\ toolResults' = results
                   /\ IF MoreToolCalls(response, idx)
                      THEN /\ idx' = idx + 1
                           /\ UNCHANGED <<pc, conversation>>
                      ELSE /\ conversation' =
                                Append(conversation, UserMessage(ToolResultsContent(results)))
                           /\ pc' = "loop"
                           /\ UNCHANGED idx
    /\ UNCHANGED <<readUserInput, response, err, tools, fs>>

\* main after Agent.Run has returned
MainExit ==
    /\ pc = "returned"
    /\ trace' = IF err /= "" THEN Append(trace, PrintEv("Error: " \o err \o "\n"))
                ELSE trace
    /\ pc' = "exited"
    /\ UNCHANGED <<conversation, readUserInput, response, toolResults, idx, err, tools, fs>>

Next ==
    \/ RunStart
    \/ \E userInput \in {UserLine(k) : k \in 1..MaxInfer} : ReadUserInput(userInput)
    \/ EndOfInput
    \/ SkipUserInput
    \/ \E reply \in Replies(MaxToolCalls - CountToolCalls(conversation)) : Infer(reply)
    \/ Dispatch
    \/ MainExit

Spec == Init /\ [][Next]_vars

\* Dispatch can be taken exactly in the range loop: there is a tool call at
\* idx, and its dispatch adds to trace
DispatchEnabled == pc = "tools"

\* The program is one goroutine that runs its statements in order, so a step
\* that can be taken is taken: the read of standard input returns (a line or
\* the end of the input), the backend call returns (a reply or an error) and
\* every other statement completes.  That is weak fairness of each action;
\* for Dispatch it is written out with DispatchEnabled for ENABLED
\* <<Dispatch>>_vars.
FairSpec ==
    /\ Spec
    /\ WF_vars(RunStart)
    /\ WF_vars(\E userInput \in {UserLine(k) : k \in 1..MaxInfer} : ReadUserInput(userInput))
    /\ WF_vars(EndOfInput)
    /\ WF_vars(SkipUserInput)
    /\ WF_vars(\E reply \in Replies(MaxToolCalls - CountToolCalls(conversation)) : Infer(reply))
    /\ (<>[]DispatchEnabled => []<><<Dispatch>>_vars)
    /\ WF_vars(MainExit)

-----------------------------------------------------------------------------
(* ListFiles over directory trees.  The run is taken up where the backend  *)
(* has answered the first user line with one list_files call, in a working *)
(* directory that holds any of the trees below; the only step is the       *)
(* dispatch of that call.                                                  *)

FileNames == {"a.txt", "b.txt"}

FileContent(name) == IF name = "a.txt" THEN "alpha" ELSE "beta"

\* the tree with the files rootFiles at its top, the directory sub holding
\* subFiles when hasSub, and the empty directory empty when hasEmpty
Tree(rootFiles, subFiles, hasSub, hasEmpty) ==
    LET top == rootFiles \cup (IF hasSub THEN {"sub"} ELSE {})
                         \cup (IF hasEmpty THEN {"empty"} ELSE {})
        below == IF hasSub THEN subFiles ELSE {}
        dirPaths == {<< >>} \cup (IF hasSub THEN {<<"sub">>} ELSE {})
                            \cup (IF hasEmpty THEN {<<"empty">>} ELSE {})
        filePaths == {<<n>> : n \in rootFiles} \cup {<<"sub", n>> : n \in below}
    IN  [files |-> [f \in filePaths |-> FileContent(f[Len(f)])],
         dirs |-> [d \in dirPaths |->
                     IF d = << >> THEN top
                     ELSE IF d = <<"sub">> THEN below ELSE {}]]

Trees ==
    { Tree(r, s, hs, he) :
        r \in SUBSET FileNames, s \in SUBSET FileNames, hs \in BOOLEAN, he \in BOOLEAN }

\* the arguments of the list_files call: no path, sub, empty, and a path
\* below the name a.txt
ListInputs ==
    {RawObject, RawObjectPath(<<"sub">>), RawObjectPath(<<"empty">>),
     RawObjectPath(<<"a.txt", "x">>)}

ListInit ==
    \E tree \in Trees, input \in ListInputs :
        LET turn == [Role |-> "assistant", Content |-> "",
                     ToolCalls |-> <<ToolCall("list_files", input)>>]
            asked == <<UserMessage(UserLine(1))>>
            r == runInference(MainTools, asked, Reply("message", turn))
        IN  /\ pc = "tools"
            /\ conversation = Append(asked, r.Message)
            /\ readUserInput = FALSE
            /\ response = r.Message
            /\ toolResults = << >>
            /\ idx = 1
            /\ err = ""
            /\ tools = MainTools
            /\ fs = tree
            /\ trace = << PrintEv("Chat with Ollama (use 'ctrl-c' to quit)\n"),
                          PrintEv("You: "),
                          InputEv(UserLine(1), TRUE),
                          ChatEv(r.request, "message", r.Message, r.err) >>

ListNext == Dispatch

ListSpec == ListInit /\ [][ListNext]_vars

-----------------------------------------------------------------------------
(* Reading the trace.                                                      *)

Last(s) == s[Len(s)]

\* s is an initial part of t
IsPrefix(s, t) == Len(s) <= Len(t) /\ SubSeq(t, 1, Len(s)) = s

\* the positions in trace of the backend calls
ChatIdx == { i \in 1..Len(trace) : trace[i].op = "Chat" }

\* the position of the first backend call after position i, or one past the
\* end of trace when there is none
NextChatIdx(i) ==
    LET later == { j \in (i + 1)..Len(trace) : trace[j].op = "Chat" }
    IN  IF later = {} THEN Len(trace) + 1
        ELSE CHOOSE j \in later : \A k \in later : j <= k

\* what happened after the backend call at position i and before the next one
Segment(i) == SubSeq(trace, i + 1, NextChatIdx(i) - 1)

\* the dispatches in a piece of trace, as the tool calls they were given
DispatchesIn(seg) ==
    LET d == SelectSeq(seg, LAMBDA e : e.op = "executeTool")
    IN  [k \in 1..Len(d) |-> ToolCall(d[k].name, d[k].input)]

\* the position in the transcript of the turn the call at position i returned
TurnOf(i) == Len(trace[i].request.Messages) + 1

\* the loop has finished with the tool calls of the call at position i: it
\* has made a later backend call, or is on its way to one
PastToolCalls(i) ==
    \/ NextChatIdx(i) <= Len(trace)
    \/ NextChatIdx(i) > Len(trace) /\ pc \in {"loop", "infer"}

\* the run has ended: Agent.Run has returned or the process has died
RunEnded == pc \in {"returned", "exited", "panicked"}

\* nothing more will be done for the turn of the call at position i: the
\* loop has finished with its tool calls, or the run has ended
SettledTurn(i) == PastToolCalls(i) \/ RunEnded

\* no later backend call has been made and the loop is in the tool calls of
\* the newest turn or on its way to the next backend call
OnTheWayToNextCall(i) ==
    NextChatIdx(i) > Len(trace) => pc \in {"tools", "loop", "infer"}

-----------------------------------------------------------------------------
\* C1: when a backend call returns an assistant turn with K tool call
\* requests, Agent.Run makes exactly K dispatches (executeTool calls) for
\* it, one per request and in request order: the dispatches made so far
\* are the first requests of the turn, and all K have been made before the
\* next backend call and when the run has ended.
C1_DispatchesInOrderBeforeNextCall ==
    \A i \in ChatIdx :
        trace[i].err = "" =>
            LET requests == trace[i].message.ToolCalls
                done == DispatchesIn(Segment(i))
            IN  /\ IsPrefix(done, requests)
                /\ SettledTurn(i) => done = requests

-----------------------------------------------------------------------------
\* the string a dispatch of tool call tc returns
ResultOf(tc) == executeTool(tools, tc.Name, tc.Arguments).result

RECURSIVE TaggedResultsOf(_)
\* the results of the tool calls tcs in request order, each after the name of
\* its tool, with a space between one and the next
TaggedResultsOf(tcs) ==
    IF tcs = << >> THEN ""
    ELSE "Tool " \o Head(tcs).Name \o " result: " \o ResultOf(Head(tcs))
         \o (IF Len(tcs) > 1 THEN " " ELSE "") \o TaggedResultsOf(Tail(tcs))

\* the turn that carries the results of the tool calls tcs
SyntheticTurn(tcs) ==
    [Role |-> "user", Content |-> "Tool results: [" \o TaggedResultsOf(tcs) \o "]",
     ToolCalls |-> << >>]

\* C2: every assistant turn with K >= 1 tool call requests is followed in the
\* transcript by exactly one synthetic turn, which holds the K results in
\* request order, each tagged with the name of its tool: the turn after the
\* synthetic one is the next backend call's turn, and neither the loop gets
\* back to its top nor the run ends with the synthetic turn missing.
C2_OneSyntheticTurnPerToolTurn ==
    \A i \in ChatIdx :
        (trace[i].err = "" /\ Len(trace[i].message.ToolCalls) >= 1) =>
            LET j == TurnOf(i)
                n == NextChatIdx(i)
            IN  /\ Len(conversation) >= j
                /\ conversation[j] = trace[i].message
                /\ Len(conversation) > j =>
                       conversation[j + 1] = SyntheticTurn(trace[i].message.ToolCalls)
                /\ Len(conversation) > j + 1 =>
                       n <= Len(trace) /\ Len(trace[n].request.Messages) = j + 1
                /\ SettledTurn(i) => Len(conversation) > j

-----------------------------------------------------------------------------
\* the texts written to the console, in order
Console ==
    LET p == Events("Print") IN [k \in 1..Len(p) |-> p[k].text]

\* every backend call so far has answered with a message without tool calls
OnlyTextReplies ==
    \A i \in ChatIdx : trace[i].reply = "message" /\ trace[i].message.ToolCalls = << >>

\* C3: when no backend reply carries tool calls and no backend call fails,
\* after N completed exchanges the transcript has exactly 2N turns, the k-th
\* user line at 2k-1 with role user and the k-th reply at 2k with role
\* assistant, and the console shows each reply's content exactly once, in order.
C3_TextExchangesAlternate ==
    (OnlyTextReplies /\ pc \in {"loop", "returned", "exited"}) =>
        LET N == Cardinality(ChatIdx)
            shown == SelectSeq(Console, LAMBDA t :
                        t /= "You: " /\ t /= "Chat with Ollama (use 'ctrl-c' to quit)\n")
        IN  /\ Len(conversation) = 2 * N
            /\ \A k \in 1..N :
                  /\ conversation[2 * k - 1].Role = "user"
                  /\ conversation[2 * k - 1].Content = UserLine(k)
                  /\ conversation[2 * k].Role = "assistant"
            /\ shown = [k \in 1..N |-> "Ollama: " \o conversation[2 * k].Content \o "\n"]

\* three exchanges without tool calls have been completed
C3_Witness ==
    /\ OnlyTextReplies
    /\ pc = "loop"
    /\ Cardinality(ChatIdx) = 3
    /\ Len(conversation) = 6

-----------------------------------------------------------------------------
\* the entry of trace at position k is the user prompt or a read of input
IsPromptOrRead(k) ==
    \/ trace[k].op = "getUserMessage"
    \/ trace[k].op = "Print" /\ trace[k].text = "You: "

\* C4: the user prompt is printed and user input is read only at the very
\* start of the run or when the most recent backend call returned a turn
\* without tool calls; so between a turn with tool calls and the next backend
\* call there is no prompt and no read.
C4_NoInputAfterToolCalls ==
    \A k \in 1..Len(trace) :
        IsPromptOrRead(k) =>
            \/ \A i \in ChatIdx : i > k
            \/ \E i \in ChatIdx :
                  /\ i < k
                  /\ NextChatIdx(i) > k
                  /\ trace[i].err = ""
                  /\ trace[i].message.ToolCalls = << >>

\* a turn with tool calls was followed by the next backend call, whose reply
\* without tool calls was followed by a read of user input
C4_Witness ==
    \E i \in ChatIdx :
        /\ trace[i].err = ""
        /\ Len(trace[i].message.ToolCalls) >= 1
        /\ NextChatIdx(i) <= Len(trace)
        /\ \A k \in (i + 1)..(NextChatIdx(i) - 1) : ~IsPromptOrRead(k)
        /\ \E k \in NextChatIdx(i)..Len(trace) : trace[k].op = "getUserMessage"

-----------------------------------------------------------------------------
\* t extends s by at least one turn
StrictlyExtends(t, s) == IsPrefix(s, t) /\ Len(s) < Len(t)

\* every backend call was given more than the call before it
ChatsStrictlyExtend ==
    \A i \in ChatIdx :
        NextChatIdx(i) <= Len(trace) =>
            StrictlyExtends(trace[NextChatIdx(i)].request.Messages,
                            trace[i].request.Messages)

\* C5: the transcript only grows at its end (no step changes, reorders or
\* removes a turn), a backend call is given the whole transcript of the
\* moment it is made, and what each backend call is given strictly extends
\* what the previous one was given.
C5_TranscriptAppendOnly ==
    [][ /\ IsPrefix(conversation, conversation')
        /\ \A i \in ChatIdx' :
              i > Len(trace) => trace'[i].request.Messages = conversation
        /\ ChatsStrictlyExtend' ]_vars

\* three backend calls have been made, the second after tool results
C5_Witness ==
    /\ Cardinality(ChatIdx) = 3
    /\ \E i \in ChatIdx : trace[i].err = "" /\ Len(trace[i].message.ToolCalls) = 2
    /\ ChatsStrictlyExtend

-----------------------------------------------------------------------------
\* C6: when a backend call fails (Chat returns an error), Agent.Run returns
\* that error at once: no turn is appended, and nothing follows the call but
\* main's print of the error - no prompt, no read, no dispatch, no backend call.
C6_BackendFailureStopsRun ==
    \A i \in ChatIdx :
        trace[i].err /= "" =>
            /\ conversation = trace[i].request.Messages
            /\ pc \in {"returned", "exited"}
            /\ err = trace[i].err
            /\ IF pc = "returned" THEN Len(trace) = i
               ELSE /\ Len(trace) = i + 1
                    /\ trace[i + 1] = PrintEv("Error: " \o trace[i].err \o "\n")

\* a backend call that followed a tool-result turn has failed, and main has
\* printed the error
C6_Witness ==
    \E i \in ChatIdx :
        /\ trace[i].err /= ""
        /\ pc = "exited"
        /\ \E h \in ChatIdx :
              /\ NextChatIdx(h) = i
              /\ Len(trace[h].message.ToolCalls) >= 1

-----------------------------------------------------------------------------
\* C7: each of the three backend failures - the connection fails, the body
\* cannot be parsed, the backend reports an error in its response - makes the
\* backend call return an error, and no turn is appended for it.
C7_EveryBackendFailureFailsTheCall ==
    \A i \in ChatIdx :
        trace[i].reply \in {"refused", "garbage", "error"} =>
            /\ trace[i].err /= ""
            /\ Len(conversation) = Len(trace[i].request.Messages)

-----------------------------------------------------------------------------
\* the payload cannot be decoded into the tools' input type
Malformed(input) == Unmarshal(input, "ReadFileInput").err /= ""

\* C8: a tool run on a malformed argument payload does not crash the process.
C8_MalformedArgumentsDoNotCrash ==
    \A k \in 1..Len(trace) :
        (trace[k].op = "Function" /\ Malformed(trace[k].input)) => pc /= "panicked"

-----------------------------------------------------------------------------
\* the tool call names a tool of the catalog
Registered(tc) == \E n \in 1..Len(tools) : tools[n].Name = tc.Name

\* what the Function of the registered tool call tc returns
FunctionOutcome(tc) ==
    CallFunction(tools[CHOOSE n \in 1..Len(tools) : tools[n].Name = tc.Name],
                 tc.Arguments)

\* the Function of tc returns an error
ReturnsError(tc) ==
    Registered(tc) /\ ~FunctionOutcome(tc).panic /\ FunctionOutcome(tc).err /= ""

\* the dispatch result the specification gives for a tool call that does not
\* panic: the fixed string, the error's description, or the tool's output
ExpectedResult(tc) ==
    IF ~Registered(tc) THEN "tool not found"
    ELSE IF FunctionOutcome(tc).err /= "" THEN FunctionOutcome(tc).err
    ELSE FunctionOutcome(tc).out

RECURSIVE ExpectedResults(_)
ExpectedResults(tcs) ==
    IF tcs = << >> THEN ""
    ELSE "Tool " \o Head(tcs).Name \o " result: " \o ExpectedResult(Head(tcs))
         \o (IF Len(tcs) > 1 THEN " " ELSE "") \o ExpectedResults(Tail(tcs))

\* Agent.Run returns an error only when a backend call returned it
OnlyBackendErrorsReturned ==
    err /= "" => \E i \in ChatIdx : trace[i].err = err

\* C9: when the Function of a dispatched tool call returns an error, the
\* dispatch result is the error's text, the remaining tool calls of the
\* turn are dispatched, the synthetic turn with that text is appended, and
\* the loop goes on to the next backend call: until that call is made the
\* run has not ended, and Agent.Run returns no error for it.
C9_ToolErrorsBecomeText ==
    /\ OnlyBackendErrorsReturned
    /\ \A i \in ChatIdx :
          trace[i].err = "" =>
              LET requests == trace[i].message.ToolCalls
                  done == DispatchesIn(Segment(i))
              IN  \A k \in 1..Len(done) :
                      ReturnsError(requests[k]) =>
                          /\ OnTheWayToNextCall(i)
                          /\ k < Len(requests) =>
                                Len(done) > k \/ (pc = "tools" /\ idx = k + 1)
                          /\ (k = Len(requests) /\ NextChatIdx(i) > Len(trace)) =>
                                pc \in {"loop", "infer"}
                          /\ SettledTurn(i) =>
                                done = requests /\ Len(conversation) > TurnOf(i)
                          /\ Len(conversation) > TurnOf(i) =>
                                conversation[TurnOf(i) + 1].Content =
                                    "Tool results: [" \o ExpectedResults(requests) \o "]"

-----------------------------------------------------------------------------
\* C10: a dispatch of a name that is not in the catalog runs no tool (the
\* next thing the process does is the next dispatch or the next backend
\* call) and does not end the session: until the next backend call is made
\* the run has not ended, the synthetic turn is appended, and the result in
\* it is the fixed string "tool not found".
C10_UnknownToolNotFound ==
    /\ \A k \in 1..Len(trace) :
          (trace[k].op = "executeTool"
             /\ ~Registered(ToolCall(trace[k].name, trace[k].input))) =>
                IF k < Len(trace)
                THEN trace[k + 1].op \in {"executeTool", "Chat"}
                ELSE pc \in {"tools", "loop", "infer"}
    /\ \A i \in ChatIdx :
          (/\ trace[i].err = ""
           /\ \E k \in 1..Len(DispatchesIn(Segment(i))) :
                 ~Registered(trace[i].message.ToolCalls[k])) =>
                /\ OnTheWayToNextCall(i)
                /\ SettledTurn(i) => Len(conversation) > TurnOf(i)
                /\ Len(conversation) > TurnOf(i) =>
                      conversation[TurnOf(i) + 1].Content =
                          "Tool results: [" \o ExpectedResults(trace[i].message.ToolCalls) \o "]"

-----------------------------------------------------------------------------
\* the positions in trace of the reads that found the input at its end
EndIdx == { k \in 1..Len(trace) : trace[k].op = "getUserMessage" /\ ~trace[k].ok }

\* the positions in trace of the backend calls that returned no error
OkChatIdx == { i \in ChatIdx : trace[i].err = "" }

\* the transcript as the last backend call left it: what it was given and,
\* when it returned no error, the turn it returned
TranscriptAfterLastChat ==
    IF ChatIdx = {} THEN << >>
    ELSE LET i == CHOOSE c \in ChatIdx : \A o \in ChatIdx : o <= c
         IN  IF trace[i].err = "" THEN Append(trace[i].request.Messages, trace[i].message)
             ELSE trace[i].request.Messages

\* C11: when the loop asks for user input and there is none, Agent.Run
\* returns nil at once: no turn is appended and nothing follows the read
\* (no backend call, no dispatch, no print); and a return of nil comes
\* only from such a read.
C11_EndOfInputReturnsNil ==
    /\ \A k \in EndIdx :
          /\ k = Len(trace)
          /\ pc \in {"returned", "exited"}
          /\ err = ""
          /\ conversation = TranscriptAfterLastChat
    /\ (pc \in {"returned", "exited"} /\ err = "") => Len(trace) \in EndIdx

\* the input ended after a tool call exchange and a reply shown to the user
C11_Witness ==
    /\ pc = "exited"
    /\ err = ""
    /\ Len(trace) \in EndIdx
    /\ Cardinality(ChatIdx) = 2
    /\ Len(conversation) = 4

-----------------------------------------------------------------------------
\* the positions in the transcript of the turns the backend returned
BackendTurns == { TurnOf(i) : i \in OkChatIdx }

\* C12: every backend call that returns no error appends the turn it
\* returned, once, whatever the turn holds; the other turns are the loop's
\* own (role user), so the turns in the transcript that came from the
\* backend are as many as the backend calls that have succeeded.
C12_OneTurnPerSuccessfulCall ==
    /\ \A i \in OkChatIdx :
          /\ TurnOf(i) <= Len(conversation)
          /\ conversation[TurnOf(i)] = trace[i].message
    /\ Cardinality(BackendTurns) = Cardinality(OkChatIdx)
    /\ \A j \in 1..Len(conversation) : j \notin BackendTurns <=> conversation[j].Role = "user"
    /\ Cardinality({ j \in 1..Len(conversation) : conversation[j].Role /= "user" })
          = Cardinality(OkChatIdx)

\* three calls have succeeded: one returned tool calls, one content only,
\* one neither content nor tool calls
C12_Witness ==
    /\ Cardinality(OkChatIdx) = 3
    /\ \E i \in OkChatIdx : Len(trace[i].message.ToolCalls) >= 1
    /\ \E i \in OkChatIdx :
          trace[i].message.Content /= "" /\ trace[i].message.ToolCalls = << >>
    /\ \E i \in OkChatIdx :
          trace[i].message.Content = "" /\ trace[i].message.ToolCalls = << >>

-----------------------------------------------------------------------------
RECURSIVE AllRequests(_)
\* the tool call requests of the turns returned by the backend calls in a
\* piece of trace, in the order received
AllRequests(seg) ==
    IF seg = << >> THEN << >>
    ELSE (IF Head(seg).op = "Chat" /\ Head(seg).err = ""
          THEN Head(seg).message.ToolCalls ELSE << >>) \o AllRequests(Tail(seg))

\* C13: every tool call request is dispatched exactly once over the run: in
\* the iteration that received its turn the requests are dispatched in order
\* and none twice, none is dispatched in a later iteration, and once the
\* loop has moved on or the run has ended the dispatches of the run are
\* exactly the requests of all the turns received.
C13_EveryRequestDispatchedOnce ==
    /\ \A i \in OkChatIdx :
          IsPrefix(DispatchesIn(Segment(i)), trace[i].message.ToolCalls)
    /\ IsPrefix(DispatchesIn(trace), AllRequests(trace))
    /\ (RunEnded \/ pc \in {"loop", "infer"}) =>
          DispatchesIn(trace) = AllRequests(trace)

-----------------------------------------------------------------------------
\* the trace line of a dispatch: the tool's name and its raw argument payload
TraceLine(name, input) == PrintEv("tool: " \o name \o "(" \o RawText(input) \o ")\n")

FunctionIdx == { k \in 1..Len(trace) : trace[k].op = "Function" }

\* C14: before every invocation of a tool's Function the console shows the
\* line "tool: <name>(<raw arguments>)" of that dispatch: the print is the
\* event just before the invocation, whatever the invocation then does; a
\* dispatch of a registered name is followed by that line and the
\* invocation, a dispatch of an unknown name by neither.
C14_TraceLineBeforeEveryInvocation ==
    /\ \A k \in FunctionIdx :
          /\ k > 2
          /\ trace[k - 2].op = "executeTool"
          /\ trace[k - 2].input = trace[k].input
          /\ trace[k - 1] = TraceLine(trace[k - 2].name, trace[k].input)
    /\ \A k \in 1..Len(trace) :
          trace[k].op = "executeTool" =>
             IF Registered(ToolCall(trace[k].name, trace[k].input))
             THEN /\ k + 2 <= Len(trace)
                  /\ trace[k + 1] = TraceLine(trace[k].name, trace[k].input)
                  /\ trace[k + 2].op = "Function"
             ELSE k = Len(trace) \/ trace[k + 1].op \in {"executeTool", "Chat"}

\* a trace line was printed before an invocation that returned an error and
\* before one that panicked
C14_Witness ==
    /\ pc = "panicked"
    /\ trace[Len(trace) - 1] = TraceLine(trace[Len(trace) - 2].name, trace[Len(trace)].input)
    /\ \E k \in FunctionIdx :
          /\ trace[k - 1] = TraceLine("read_file", trace[k].input)
          /\ ReturnsError(ToolCall("read_file", trace[k].input))

-----------------------------------------------------------------------------
\* the console line that displays the content of an assistant turn
AssistantLine(message) == PrintEv("Ollama: " \o message.Content \o "\n")

\* the positions in trace where the content of some turn is displayed
DisplayIdx ==
    { k \in 1..Len(trace) :
        \E c \in Contents : trace[k] = AssistantLine([ZeroMessage EXCEPT !.Content = c]) }

\* the successful backend calls whose turn carries no tool call requests
TextChatIdx == { i \in OkChatIdx : trace[i].message.ToolCalls = << >> }

\* C15: the content of an assistant turn is written to the console if and
\* only if the turn carries no tool call requests: the display lines of the
\* console are exactly one directly after each backend call that returned
\* such a turn; a turn with tool calls is in the transcript and is not
\* displayed; and after a display the loop is back at reading user input:
\* it is at the top of the loop with readUserInput set, or its next steps
\* were the prompt and a read.
C15_ContentDisplayedIffNoToolCalls ==
    /\ DisplayIdx = { i + 1 : i \in TextChatIdx }
    /\ \A i \in OkChatIdx :
          /\ conversation[TurnOf(i)] = trace[i].message
          /\ IF i \in TextChatIdx
             THEN /\ i + 1 <= Len(trace)
                  /\ trace[i + 1] = AssistantLine(trace[i].message)
                  /\ IF i + 1 = Len(trace)
                     THEN pc = "loop" /\ readUserInput
                     ELSE /\ trace[i + 2] = PrintEv("You: ")
                          /\ trace[i + 3].op = "getUserMessage"
             ELSE \A k \in (i + 1)..(NextChatIdx(i) - 1) :
                     trace[k] /= AssistantLine(trace[i].message)

\* a turn with content and tool calls was appended and its calls dispatched
\* without a display, then a turn with content and no tool calls was
\* displayed and the next line was read
C15_Witness ==
    \E i \in OkChatIdx, j \in TextChatIdx :
        /\ i < j
        /\ trace[i].message.Content = "hi"
        /\ trace[i].message.ToolCalls /= << >>
        /\ conversation[TurnOf(i)] = trace[i].message
        /\ trace[j].message.Content = "hi"
        /\ j + 3 <= Len(trace)
        /\ trace[j + 3].op = "getUserMessage"

-----------------------------------------------------------------------------
\* the turn at position n of transcript t was authored by the loop: it is
\* the turn of a user line, or the synthetic turn for the tool calls of the
\* turn before it
LoopAuthored(t, n) ==
    /\ t[n].Role = "user"
    /\ IF n > 1 /\ t[n - 1].ToolCalls /= << >>
       THEN t[n] = SyntheticTurn(t[n - 1].ToolCalls)
       ELSE \E k \in 1..MaxInfer : t[n] = UserMessage(UserLine(k))

\* the turn at position n of transcript t was returned by the backend call
\* made with the n - 1 turns before it
BackendReturned(t, n) ==
    \E i \in OkChatIdx :
        /\ Len(trace[i].request.Messages) = n - 1
        /\ trace[i].message = t[n]
        /\ trace[i].request.Messages = SubSeq(t, 1, n - 1)

\* C16: every backend call is made with a non-empty transcript whose last
\* turn was authored by the loop, a user turn or a synthetic tool-result
\* turn, both with role user; from one backend call to the next the
\* transcript grows by the returned turn and one loop-authored turn; and in
\* the transcript loop-authored turns (odd positions) and backend-returned
\* turns (even positions) alternate, starting with the first user line.
C16_CallsEndInLoopAuthoredTurn ==
    /\ \A i \in ChatIdx :
          LET t == trace[i].request.Messages
          IN  /\ t /= << >>
              /\ LoopAuthored(t, Len(t))
              /\ ~BackendReturned(t, Len(t))
              /\ NextChatIdx(i) <= Len(trace) =>
                    LET u == trace[NextChatIdx(i)].request.Messages
                    IN  /\ Len(u) = Len(t) + 2
                        /\ SubSeq(u, 1, Len(t) + 1) = Append(t, trace[i].message)
    /\ \A n \in 1..Len(conversation) :
          IF n % 2 = 1
          THEN /\ conversation[n].Role = "user"
               /\ ~BackendReturned(conversation, n)
               /\ n = Len(conversation) => LoopAuthored(conversation, n)
          ELSE BackendReturned(conversation, n)
    /\ conversation /= << >> => conversation[1] = UserMessage(UserLine(1))

\* three backend calls have been made: the second after a synthetic
\* tool-result turn, the third after a user line
C16_Witness ==
    /\ Cardinality(ChatIdx) = 3
    /\ \E i \in ChatIdx :
          LET t == trace[i].request.Messages
          IN  Len(t) = 3 /\ t[3] = SyntheticTurn(t[2].ToolCalls) /\ t[2].ToolCalls /= << >>
    /\ \E i \in ChatIdx :
          LET t == trace[i].request.Messages
          IN  Len(t) = 5 /\ t[5] = UserMessage(UserLine(2))

-----------------------------------------------------------------------------
\* the names of the catalog's tools, in catalog order
CatalogNames == <<"read_file", "list_files">>

\* C18: the tool catalog is the one main built, whatever the loop has done,
\* and every backend call is sent the same list of descriptors: one per
\* catalog entry in catalog order, with the entry's name and description
\* and a parameter schema of type object whose properties are the entry's
\* set of named properties.
C18_CatalogUnchanged ==
    /\ tools = <<ReadFileDefinition, ListFilesDefinition>>
    /\ \A i \in ChatIdx :
          LET d == trace[i].request.Tools
          IN  /\ Len(d) = Len(CatalogNames)
              /\ \A k \in 1..Len(d) :
                    /\ d[k].Type = "function"
                    /\ d[k].Name = CatalogNames[k]
                    /\ d[k].Description = MainTools[k].Description
                    /\ d[k].Parameters.type = "object"
                    /\ d[k].Parameters.properties = MainTools[k].Properties
    /\ \A i, j \in ChatIdx : trace[i].request.Tools = trace[j].request.Tools

\* three backend calls were made, with a dispatch that returned an error and
\* a dispatch of an unknown tool in between, and the last call failed
C18_Witness ==
    /\ Cardinality(ChatIdx) = 3
    /\ \E k \in FunctionIdx : ReturnsError(ToolCall("read_file", trace[k].input))
    /\ \E k \in 1..Len(trace) : trace[k].op = "executeTool" /\ trace[k].name = "write_file"
    /\ pc = "returned"
    /\ err /= ""

-----------------------------------------------------------------------------
\* every backend call so far has returned a turn with tool calls
ToolCallsOnly ==
    /\ ChatIdx /= {}
    /\ \A i \in ChatIdx : trace[i].err = "" /\ trace[i].message.ToolCalls /= << >>

\* the backend has answered the last backend call the input allows with
\* tool calls: its run of tool-call turns has not ended within the input
ToolCallRunGoesOn ==
    pc = "loop" /\ ~readUserInput /\ Len(Events("Chat")) >= MaxInfer

\* C17: with a finite input, backend calls that return and a run of
\* tool-call turns that ends within the input, the run eventually ends; and
\* the loop itself never ends a run of tool-call turns: as long as every
\* backend call has answered with tool calls, Agent.Run has not returned,
\* the only line read is the first one, the end of the input has not been
\* met, and at the top of the loop it goes on to the next backend call
\* without reading.
C17_TerminatesUnlessToolCallsForever ==
    /\ <>(RunEnded \/ ToolCallRunGoesOn)
    /\ [](ToolCallsOnly =>
             /\ pc \in {"tools", "loop", "infer", "panicked"}
             /\ LinesRead = 1
             /\ EndIdx = {}
             /\ pc = "loop" => (~readUserInput /\ ENABLED SkipUserInput))

\* the run has ended normally at the end of the input, after two turns with
\* tool calls in a row and a turn without
C17_Witness ==
    /\ pc = "exited"
    /\ err = ""
    /\ Len(trace) \in EndIdx
    /\ Cardinality(ChatIdx) = 3
    /\ Cardinality(TextChatIdx) = 1
    /\ LinesRead = 1

-----------------------------------------------------------------------------
RECURSIVE EntriesOf(_, _, _)
\* the entries of the listing of root contributed by the names (in lexical
\* order) of directory p: each path relative to root, a directory with a
\* trailing "/" and followed by the entries below it
EntriesOf(root, p, names) ==
    IF names = << >> THEN << >>
    ELSE LET q == Append(p, Head(names))
             rel == Join(SubSeq(q, Len(root) + 1, Len(q)), "/")
         IN  (IF q \in DOMAIN fs.dirs
              THEN <<rel \o "/">> \o EntriesOf(root, q, SortNames(fs.dirs[q]))
              ELSE <<rel>>)
             \o EntriesOf(root, p, Tail(names))

\* the array-of-strings serialization of ss: ["a","b"], and [] for none
ArrayOfStrings(ss) == "[" \o Join(Quoted(ss), ",") \o "]"

\* the directory a list_files call with well-formed arguments lists
ListedDir(input) == Unmarshal(input, "ListFilesInput").Path

\* the position n of the current turn holds a dispatched list_files call of
\* an existing directory
ListedAt(n) ==
    /\ n \in 1..Len(toolResults)
    /\ n <= Len(response.ToolCalls)
    /\ response.ToolCalls[n].Name = "list_files"
    /\ Unmarshal(response.ToolCalls[n].Arguments, "ListFilesInput").err = ""
    /\ ListedDir(response.ToolCalls[n].Arguments) \in DOMAIN fs.dirs

\* C19: for every directory tree, the empty directory included, the result
\* of a successful list_files call is the array-of-strings serialization of
\* the entries below the listed directory in traversal order, each relative
\* to that directory, the directory itself left out, directories and only
\* directories with a trailing "/".
C19_ListingIsArrayOfEntries ==
    \A n \in 1..Len(toolResults) :
        ListedAt(n) =>
            LET dir == ListedDir(response.ToolCalls[n].Arguments)
            IN  toolResults[n] =
                   "Tool list_files result: "
                   \o ArrayOfStrings(EntriesOf(dir, dir, SortNames(fs.dirs[dir])))

====
